---- MODULE Spec2Model ----
(***************************************************************************)
(* The bidegree scheduler iter_s_t of ext/src/utils.rs and the resolution  *)
(* homomorphism state machine that drives it (extend_step / extend_one /   *)
(* extend_all, used by examples/lift_hom.rs and secondary_product.rs).     *)
(***************************************************************************)
EXTENDS Integers, FiniteSets, Sequences, TLC

\* Homological degrees used as rows: 0 .. MaxS-1; max_s ranges over 0 .. MaxS.
MaxS == 2
\* Internal degrees used as columns: 0 .. MaxT-1; max_t(s) ranges over 0 .. MaxT.
MaxT == 3

\* The declared grid of a call has at most MaxCells bidegrees.
MaxCells == 5
Rows == 0 .. (MaxS - 1)
Cols == 0 .. (MaxT - 1)
Cell == Rows \X Cols

Min(a, b) == IF a <= b THEN a ELSE b

\* The invocations of f on one bidegree are counted up to MaxCalls.
MaxCalls == 2

\* Bound on max_t(s) in the runs with a step function that returns any range.
AnyMaxT == 2

\* The ways the step function f produces its returned range.
\*  "documented": the range t..T of the doc comment, T read when f returns,
\*                some time after f has published its result
\*  "push_ooo"  : the same range, read in the step that publishes the result
\*                (the value returned by the push into the table)
\*  "honest"    : the range t..t+1 of the degree f has just published
\*  "arbitrary" : any range
\*  "extend_one": the step function of extend_all (see the homomorphism below)
FKinds == {"documented", "push_ooo", "honest"}

\* The ranges an arbitrary f may return: start..end, possibly empty or over-long.
Ranges == (0 .. (AnyMaxT - 1)) \X (0 .. AnyMaxT)

\* The arguments of a call iter_s_t(f, min_s, min_t, max_s, max_t).
\* The bidegrees of the declared grid; max_t is only ever queried on row
\* min_s and on the rows of (min_s, max_s), the other rows are set to 0.
GridOf(a) ==
  {c \in Cell : /\ a.min_s <= c[1] /\ c[1] < a.max_s
                /\ a.min_t <= c[2] /\ c[2] < a.max_t[c[1]]}
ArgSets ==
  {a \in [min_s : {0, 1}, min_t : {0, 1}, max_s : 0 .. MaxS, max_t : [Rows -> 0 .. MaxT]] :
     /\ Cardinality(GridOf(a)) <= MaxCells
     /\ \A s \in Rows : (s < a.min_s \/ (s > a.min_s /\ s >= a.max_s)) => a.max_t[s] = 0}
AnyArgSets ==
  {a \in [min_s : {0, 1}, min_t : {0, 1}, max_s : 0 .. MaxS, max_t : [Rows -> 0 .. AnyMaxT]] :
     /\ Cardinality(GridOf(a)) <= MaxCells
     /\ \A s \in Rows : (s < a.min_s \/ (s > a.min_s /\ s >= a.max_s)) => a.max_t[s] = 0}

VARIABLES
  args,       \* the arguments of the call
  fkind,      \* how f produces its range
  pc,         \* "idle" (not called), "scope" (inside rayon::scope), "returned"
  pending,    \* Cell -> number of run(s,t) spawned and not yet started
  running,    \* Cell -> number of invocations f(s,t) started and not yet published
  waiting,    \* Cell -> number of invocations f(s,t) published and not yet returned
  computed,   \* cells whose result is published
  calls,      \* Cell -> number of invocations of f so far, counted up to MaxCalls
  covered,    \* cells (s,u) with u inside some range returned by a call of row s
  early,      \* cells started while some (s-1,t'), min_t <= t' < t, was unpublished
  noCoverT,   \* cells with s >= 1 started while (s-1,t) was in no returned range
  noCoverP,   \* cells with s > min_s, t > min_t started while (s-1,t-1) was in no returned range
  emptyRet,   \* number of calls that returned an empty range, capped at 1
  emptyUnl,   \* TRUE once a call that returned an empty range spawned a task
  unlAfter,   \* TRUE once a non-empty range unlocked work after an empty range was returned
  image,      \* Cell -> the image of the homomorphism at the bidegree, or "unset"
  writes,     \* Cell -> number of times the image was written, counted up to MaxCalls
  solves,     \* Cell -> number of solves (extend_one) started, counted up to MaxCalls
  skipping,   \* Cell -> number of invocations that found the bidegree set, not yet returned
  settled,    \* TRUE from the return of extend_all to the next extend_step / extend_one call
  mpc,        \* the position of examples/lift_hom.rs main
  minp,       \* what main was given: the two modules and the answers to its queries
  steps,      \* the calls main has made on the resolutions and the homomorphism, in order
  table,      \* the algebra's table: degree -> "none" or "computed"
  twrites,    \* degree -> number of times the degree's entry was written, up to MaxCalls
  req,        \* caller -> the degree of its compute_basis call in progress, as a set, or {}
  op,         \* the function applied to input, "none" before the call
  input,      \* the arguments of a call of one of the pure functions
  output      \* what the call returned

homvars == <<image, writes, solves, skipping, settled>>

\* The state outside iter_s_t and the homomorphism.
mainvars == <<mpc, minp, steps>>
algvars == <<table, twrites, req>>
callvars == <<op, input, output>>
libvars == <<mainvars, algvars, callvars>>

vars == <<args, fkind, pc, pending, running, waiting, computed, calls, covered,
          early, noCoverT, noCoverP, emptyRet, emptyUnl, unlAfter, homvars,
          libvars>>

\* main has not been started.
MainIdle == mpc = "idle" /\ minp = <<>> /\ steps = <<>>
\* No algebra is in use.
AlgIdle == table = <<>> /\ twrites = <<>> /\ req = <<>>
\* No call of a pure function is being followed.
CallIdle == op = "none" /\ input = <<>> /\ output = <<>>
LibIdle == MainIdle /\ AlgIdle /\ CallIdle

Zero == [c \in Cell |-> 0]

----------------------------------------------------------------------------
\* The scheduler's pure parts.

\* std::ops::Range::is_empty
IsEmpty(r) == r[1] >= r[2]

\* The two closures of rayon::join: row min_s over [min_t, max_t(min_s)) and
\* column min_t over (min_s, max_s).
BootstrapRow(a) == {<<a.min_s, t>> : t \in a.min_t .. (a.max_t[a.min_s] - 1)}

\* A join whose second closure spawns nothing.
NoBootstrapCol(a) == {}

BootstrapCol(a) == {<<s, a.min_t>> : s \in (a.min_s + 1) .. (a.max_s - 1)}
BootstrapCalls(a) == BootstrapRow(a) \cup BootstrapCol(a)

\* The declared grid: both upper bounds exclusive.
InGrid(a, c) ==
  /\ a.min_s <= c[1] /\ c[1] < a.max_s
  /\ a.min_t <= c[2] /\ c[2] < a.max_t[c[1]]

\* run(s, t) after f returned ret: the range of row s+1 handed to scope.spawn.
NoStartIncr(a, s, ret) ==
  IF s + 1 < a.max_s
    THEN <<ret[1], Min(ret[2] + 1, a.max_t[s + 1])>>
    ELSE <<0, 0>>

NoEndIncr(a, s, ret) ==
  IF s + 1 < a.max_s
    THEN <<ret[1] + 1, Min(ret[2], a.max_t[s + 1])>>
    ELSE <<0, 0>>

EndPlusTwo(a, s, ret) ==
  IF s + 1 < a.max_s
    THEN <<ret[1] + 1, Min(ret[2] + 2, a.max_t[s + 1])>>
    ELSE <<0, 0>>

UnlockRange(a, s, ret) ==
  IF s + 1 < a.max_s
    THEN <<ret[1] + 1, Min(ret[2] + 1, a.max_t[s + 1])>>
    ELSE <<0, 0>>

\* The cells run(s, t) spawns: run(s + 1, t') for t' in the unlocked range.
SameRow(a, s, ret) ==
  LET r == UnlockRange(a, s, ret)
  IN  IF IsEmpty(r) THEN {} ELSE {<<s, u>> : u \in r[1] .. (r[2] - 1)}

Unlocked(a, s, ret) ==
  LET r == UnlockRange(a, s, ret)
  IN  IF IsEmpty(r) THEN {} ELSE {<<s + 1, u>> : u \in r[1] .. (r[2] - 1)}

\* The largest T such that every (s, t') with min_t <= t' < T is in comp.
Extent(a, s, comp) ==
  CHOOSE T \in a.min_t .. MaxT :
    /\ \A u \in a.min_t .. (T - 1) : <<s, u>> \in comp
    /\ (T = MaxT \/ <<s, T>> \notin comp)

\* The range of the doc comment: from t to the largest T such that f(s, t')
\* has been computed for every t' < T.
DocumentedRange(a, s, t, comp) == <<t, Extent(a, s, comp)>>

\* An honest range: it starts at t and covers the degree f(s, t) has just
\* published, and nothing else.
HonestRange(s, t) == <<t, t + 1>>

\* The ranges f(s, t) may return, by kind, comp being the published cells
\* when the range is determined.
FRanges(k, a, s, t, comp) ==
  CASE k = "documented" -> {DocumentedRange(a, s, t, comp)}
    [] k = "push_ooo"   -> {DocumentedRange(a, s, t, comp)}
    [] k = "honest"     -> {HonestRange(s, t)}
    [] OTHER            -> Ranges

----------------------------------------------------------------------------
\* The scheduler's steps.

Init ==
  /\ args \in ArgSets
  /\ fkind \in FKinds
  /\ pc = "idle"
  /\ pending = Zero
  /\ running = Zero
  /\ waiting = Zero
  /\ computed = {}
  /\ calls = Zero
  /\ covered = {}
  /\ early = {}
  /\ noCoverT = {}
  /\ noCoverP = {}
  /\ emptyRet = 0
  /\ emptyUnl = FALSE
  /\ unlAfter = FALSE
  /\ image = [c \in Cell |-> "unset"]
  /\ writes = Zero
  /\ solves = Zero
  /\ skipping = Zero
  /\ settled = FALSE
  /\ LibIdle

\* iter_s_t is entered: rayon::scope and the two closures of rayon::join.
IterST ==
  /\ pc = "idle"
  /\ pc' = "scope"
  /\ pending' = [c \in Cell |-> IF c \in BootstrapCalls(args) THEN 1 ELSE 0]
  /\ UNCHANGED <<args, fkind, running, waiting, computed, calls, covered, early,
                 noCoverT, noCoverP, emptyRet, emptyUnl, unlAfter, homvars>>
  /\ UNCHANGED libvars

\* A worker takes run(s, t) and invokes f(s, t).
Start(s, t) ==
  /\ pc = "scope"
  /\ pending[<<s, t>>] > 0
  /\ pending' = [pending EXCEPT ![<<s, t>>] = @ - 1]
  /\ running' = [running EXCEPT ![<<s, t>>] = @ + 1]
  /\ calls' = [calls EXCEPT ![<<s, t>>] = Min(@ + 1, MaxCalls)]
  /\ early' = IF /\ s > args.min_s
                 /\ \E u \in args.min_t .. (t - 1) : <<s - 1, u>> \notin computed
                THEN early \cup {<<s, t>>} ELSE early
  /\ noCoverT' = IF s >= 1 /\ <<s - 1, t>> \notin covered
                   THEN noCoverT \cup {<<s, t>>} ELSE noCoverT
  /\ noCoverP' = IF s > args.min_s /\ t > args.min_t /\ <<s - 1, t - 1>> \notin covered
                   THEN noCoverP \cup {<<s, t>>} ELSE noCoverP
  /\ UNCHANGED <<args, fkind, pc, waiting, computed, covered,
                 emptyRet, emptyUnl, unlAfter, homvars>>
  /\ UNCHANGED libvars

\* f(s, t) writes its result (a documented or honest f: the range is
\* determined later, when f returns).
Publish(s, t) ==
  /\ pc = "scope"
  /\ fkind # "push_ooo"
  /\ running[<<s, t>>] > 0
  /\ running' = [running EXCEPT ![<<s, t>>] = @ - 1]
  /\ waiting' = [waiting EXCEPT ![<<s, t>>] = @ + 1]
  /\ computed' = computed \cup {<<s, t>>}
  /\ UNCHANGED <<args, fkind, pc, pending, calls, covered, early, noCoverT,
                 noCoverP, emptyRet, emptyUnl, unlAfter, homvars>>
  /\ UNCHANGED libvars

\* f(s, t) returns ret and run(s, t) spawns the unlocked part of row s + 1.
\* With push_ooo the result is published in the same step.
Return(s, t) ==
  /\ pc = "scope"
  /\ IF fkind = "push_ooo"
       THEN /\ running[<<s, t>>] > 0
            /\ running' = [running EXCEPT ![<<s, t>>] = @ - 1]
            /\ waiting' = waiting
            /\ computed' = computed \cup {<<s, t>>}
       ELSE /\ waiting[<<s, t>>] > 0
            /\ waiting' = [waiting EXCEPT ![<<s, t>>] = @ - 1]
            /\ running' = running
            /\ computed' = computed
  /\ \E ret \in FRanges(fkind, args, s, t, computed') :
       LET unl == Unlocked(args, s, ret)
       IN  /\ pending' = [c \in Cell |-> IF c \in unl THEN pending[c] + 1 ELSE pending[c]]
           /\ covered' = covered \cup ({s} \X (ret[1] .. (ret[2] - 1)))
           /\ emptyRet' = IF IsEmpty(ret) THEN 1 ELSE emptyRet
           /\ emptyUnl' = (emptyUnl \/ (IsEmpty(ret) /\ unl # {}))
           /\ unlAfter' = (unlAfter \/ (emptyRet = 1 /\ ~IsEmpty(ret) /\ unl # {}))
  /\ UNCHANGED <<args, fkind, pc, calls, early, noCoverT, noCoverP, homvars>>
  /\ UNCHANGED libvars

\* A scope that returns without waiting for its tasks.
ExitEarly ==
  /\ pc = "scope"
  /\ pc' = "returned"
  /\ UNCHANGED <<args, fkind, pending, running, waiting, computed, calls, covered,
                 early, noCoverT, noCoverP, emptyRet, emptyUnl, unlAfter, homvars>>
  /\ UNCHANGED libvars

\* rayon::scope returns once the closures and every spawned task have finished.
ScopeExit ==
  /\ pc = "scope"
  /\ \A c \in Cell : pending[c] = 0 /\ running[c] = 0 /\ waiting[c] = 0
  /\ pc' = "returned"
  /\ UNCHANGED <<args, fkind, pending, running, waiting, computed, calls, covered,
                 early, noCoverT, noCoverP, emptyRet, emptyUnl, unlAfter, homvars>>
  /\ UNCHANGED libvars

\* The same two steps for a step function about which nothing is assumed:
\* f(s, t) is invoked, and later returns any range.
StartAny(s, t) ==
  /\ pc = "scope"
  /\ pending[<<s, t>>] > 0
  /\ pending' = [pending EXCEPT ![<<s, t>>] = @ - 1]
  /\ running' = [running EXCEPT ![<<s, t>>] = @ + 1]
  /\ calls' = [calls EXCEPT ![<<s, t>>] = Min(@ + 1, MaxCalls)]
  /\ UNCHANGED <<args, fkind, pc, waiting, computed, covered, early, noCoverT,
                 noCoverP, emptyRet, emptyUnl, unlAfter, homvars>>
  /\ UNCHANGED libvars

ReturnAny(s, t) ==
  /\ pc = "scope"
  /\ running[<<s, t>>] > 0
  /\ running' = [running EXCEPT ![<<s, t>>] = @ - 1]
  /\ \E ret \in FRanges(fkind, args, s, t, computed) :
       LET unl == Unlocked(args, s, ret)
       IN  /\ pending' = [c \in Cell |-> IF c \in unl THEN pending[c] + 1 ELSE pending[c]]
           /\ emptyRet' = IF IsEmpty(ret) THEN 1 ELSE emptyRet
           /\ emptyUnl' = (emptyUnl \/ (IsEmpty(ret) /\ unl # {}))
           /\ unlAfter' = (unlAfter \/ (emptyRet = 1 /\ ~IsEmpty(ret) /\ unl # {}))
  /\ UNCHANGED <<args, fkind, pc, waiting, computed, calls, covered, early,
                 noCoverT, noCoverP, homvars>>
  /\ UNCHANGED libvars

Next ==
  \/ IterST
  \/ \E s \in Rows, t \in Cols : Start(s, t)
  \/ \E s \in Rows, t \in Cols : Publish(s, t)
  \/ \E s \in Rows, t \in Cols : Return(s, t)
  \/ ScopeExit

Spec == Init /\ [][Next]_vars

InitAny ==
  /\ args \in AnyArgSets
  /\ fkind = "arbitrary"
  /\ pc = "idle"
  /\ pending = Zero
  /\ running = Zero
  /\ waiting = Zero
  /\ computed = {}
  /\ calls = Zero
  /\ covered = {}
  /\ early = {}
  /\ noCoverT = {}
  /\ noCoverP = {}
  /\ emptyRet = 0
  /\ emptyUnl = FALSE
  /\ unlAfter = FALSE
  /\ image = [c \in Cell |-> "unset"]
  /\ writes = Zero
  /\ solves = Zero
  /\ skipping = Zero
  /\ settled = FALSE
  /\ LibIdle

NextAny ==
  \/ IterST
  \/ \E s \in Rows, t \in Cols : StartAny(s, t)
  \/ \E s \in Rows, t \in Cols : ReturnAny(s, t)
  \/ ScopeExit

SpecAny == InitAny /\ [][NextAny]_vars

\* The tasks of the pool are scheduled fairly and f always returns.
FairSpecAny == SpecAny /\ WF_vars(NextAny)

----------------------------------------------------------------------------
\* The resolution homomorphism: a table of images indexed by the source's
\* bidegrees, filled by extend_step and extend_one, and by extend_all, which
\* runs iter_s_t with f(s, t) = extend_one and report the range now fixed.
\* The arguments of that call are read off the source resolution: min_s is
\* shift_s, max_s the source's next homological degree and max_t(s) the end
\* of the degrees the source has computed on row s. The source is itself built
\* in the scheduler's order, so that its rows are not empty and row s+1 ends
\* at most one degree after row s.

schedvars == <<waiting, computed, covered, early, noCoverT, noCoverP,
               emptyRet, emptyUnl, unlAfter>>

HomArgSets ==
  {a \in [min_s : {0, 1}, min_t : {0}, max_s : 0 .. MaxS, max_t : [Rows -> 0 .. MaxT]] :
     /\ Cardinality(GridOf(a)) <= MaxCells
     /\ \A s \in Rows : (s < a.min_s \/ s >= a.max_s) => a.max_t[s] = 0
     /\ \A s \in Rows : (a.min_s <= s /\ s < a.max_s) => a.max_t[s] >= 1
     /\ \A s \in Rows : (a.min_s <= s /\ s + 1 < a.max_s) => a.max_t[s + 1] <= a.max_t[s] + 1}

\* The images a bidegree can hold: zero (extend_step without a matrix), the
\* rows of the matrix given to extend_step, or the lift solved by extend_one.
Images == {"zero", "given", "lifted"}

SetCells(img) == {c \in Cell : img[c] # "unset"}

\* The state of a bidegree, read when f(s, t) is invoked.
NeverSet(img, c) == FALSE

AlreadySet(img, c) == img[c] # "unset"

\* The images of a row are an append-only table: a call made by the user
\* fixes the next unset degree of its row.
NextOfRow(img, a, c) ==
  /\ c \in GridOf(a)
  /\ img[c] = "unset"
  /\ \A u \in a.min_t .. (c[2] - 1) : img[<<c[1], u>>] # "unset"

\* The range reported for a bidegree found already set: the bidegree itself.
SkipRange(t) == <<t, t + 1>>

InitHom ==
  /\ args \in HomArgSets
  /\ fkind = "extend_one"
  /\ pc = "idle"
  /\ pending = Zero
  /\ running = Zero
  /\ waiting = Zero
  /\ computed = {}
  /\ calls = Zero
  /\ covered = {}
  /\ early = {}
  /\ noCoverT = {}
  /\ noCoverP = {}
  /\ emptyRet = 0
  /\ emptyUnl = FALSE
  /\ unlAfter = FALSE
  /\ image = [c \in Cell |-> "unset"]
  /\ writes = Zero
  /\ solves = Zero
  /\ skipping = Zero
  /\ settled = FALSE
  /\ LibIdle

\* extend_step(shift_s, t, matrix_or_none), as the callers use it to fix the
\* images on row shift_s: the images are zero when the matrix is omitted, and
\* the rows of the matrix otherwise.
ExtendStep(s, t, m) ==
  /\ pc = "idle"
  /\ s = args.min_s
  /\ NextOfRow(image, args, <<s, t>>)
  /\ image' = [image EXCEPT ![<<s, t>>] = m]
  /\ writes' = [writes EXCEPT ![<<s, t>>] = Min(@ + 1, MaxCalls)]
  /\ settled' = FALSE
  /\ UNCHANGED <<args, fkind, pc, pending, running, calls, solves, skipping,
                 schedvars>>
  /\ UNCHANGED libvars

\* extend_one(s, t), called once the images of row s-1 are fixed below t.
ExtendOne(s, t) ==
  /\ pc = "idle"
  /\ NextOfRow(image, args, <<s, t>>)
  /\ s > args.min_s => \A u \in args.min_t .. (t - 1) : image[<<s - 1, u>>] # "unset"
  /\ image' = [image EXCEPT ![<<s, t>>] = "lifted"]
  /\ writes' = [writes EXCEPT ![<<s, t>>] = Min(@ + 1, MaxCalls)]
  /\ solves' = [solves EXCEPT ![<<s, t>>] = Min(@ + 1, MaxCalls)]
  /\ settled' = FALSE
  /\ UNCHANGED <<args, fkind, pc, pending, running, calls, skipping,
                 schedvars>>
  /\ UNCHANGED libvars

\* extend_all() enters iter_s_t.
ExtendAll ==
  /\ pc = "idle"
  /\ pc' = "scope"
  /\ pending' = [c \in Cell |-> IF c \in BootstrapCalls(args) THEN 1 ELSE 0]
  /\ calls' = Zero
  /\ UNCHANGED <<args, fkind, running, image, writes, solves, skipping, settled,
                 schedvars>>
  /\ UNCHANGED libvars

\* A worker takes run(s, t) and invokes f(s, t), which reads the bidegree:
\* set, there is nothing to solve; unset, extend_one starts its solve.
HomStart(s, t) ==
  /\ pc = "scope"
  /\ pending[<<s, t>>] > 0
  /\ pending' = [pending EXCEPT ![<<s, t>>] = @ - 1]
  /\ calls' = [calls EXCEPT ![<<s, t>>] = Min(@ + 1, MaxCalls)]
  /\ IF AlreadySet(image, <<s, t>>)
       THEN /\ skipping' = [skipping EXCEPT ![<<s, t>>] = @ + 1]
            /\ UNCHANGED <<running, solves>>
       ELSE /\ running' = [running EXCEPT ![<<s, t>>] = @ + 1]
            /\ solves' = [solves EXCEPT ![<<s, t>>] = Min(@ + 1, MaxCalls)]
            /\ skipping' = skipping
  /\ UNCHANGED <<args, fkind, pc, image, writes, settled, schedvars>>
  /\ UNCHANGED libvars

\* f(s, t) returns for a bidegree it found set, and run(s, t) spawns.
HomSkipReturn(s, t) ==
  /\ pc = "scope"
  /\ skipping[<<s, t>>] > 0
  /\ skipping' = [skipping EXCEPT ![<<s, t>>] = @ - 1]
  /\ LET unl == Unlocked(args, s, SkipRange(t))
     IN  pending' = [c \in Cell |-> IF c \in unl THEN pending[c] + 1 ELSE pending[c]]
  /\ UNCHANGED <<args, fkind, pc, running, calls, image, writes, solves,
                 settled, schedvars>>
  /\ UNCHANGED libvars

\* extend_one(s, t) writes the image it solved for and reports the range now
\* fixed, in one step; run(s, t) spawns.
HomSolveReturn(s, t) ==
  /\ pc = "scope"
  /\ running[<<s, t>>] > 0
  /\ running' = [running EXCEPT ![<<s, t>>] = @ - 1]
  /\ image' = [image EXCEPT ![<<s, t>>] = "lifted"]
  /\ writes' = [writes EXCEPT ![<<s, t>>] = Min(@ + 1, MaxCalls)]
  /\ LET unl == Unlocked(args, s, DocumentedRange(args, s, t, SetCells(image')))
     IN  pending' = [c \in Cell |-> IF c \in unl THEN pending[c] + 1 ELSE pending[c]]
  /\ UNCHANGED <<args, fkind, pc, calls, solves, skipping, settled,
                 schedvars>>
  /\ UNCHANGED libvars

\* iter_s_t, and with it extend_all, returns.
ExtendAllReturn ==
  /\ pc = "scope"
  /\ \A c \in Cell : pending[c] = 0 /\ running[c] = 0 /\ skipping[c] = 0
  /\ pc' = "idle"
  /\ settled' = TRUE
  /\ UNCHANGED <<args, fkind, pending, running, calls, image, writes, solves,
                 skipping, schedvars>>
  /\ UNCHANGED libvars

NextHom ==
  \/ \E s \in Rows, t \in Cols, m \in {"zero", "given"} : ExtendStep(s, t, m)
  \/ \E s \in Rows, t \in Cols : ExtendOne(s, t)
  \/ ExtendAll
  \/ \E s \in Rows, t \in Cols : HomStart(s, t)
  \/ \E s \in Rows, t \in Cols : HomSkipReturn(s, t)
  \/ \E s \in Rows, t \in Cols : HomSolveReturn(s, t)
  \/ ExtendAllReturn

SpecHom == InitHom /\ [][NextHom]_vars

----------------------------------------------------------------------------
\* The state of iter_s_t and of the homomorphism table when neither is in use.
itervars == <<args, fkind, pc, pending, running, waiting, computed, calls,
              covered, early, noCoverT, noCoverP, emptyRet, emptyUnl, unlAfter,
              homvars>>

IterIdle ==
  /\ args = [min_s |-> 0, min_t |-> 0, max_s |-> 0, max_t |-> [s \in Rows |-> 0]]
  /\ fkind = "none"
  /\ pc = "idle"
  /\ pending = Zero
  /\ running = Zero
  /\ waiting = Zero
  /\ computed = {}
  /\ calls = Zero
  /\ covered = {}
  /\ early = {}
  /\ noCoverT = {}
  /\ noCoverP = {}
  /\ emptyRet = 0
  /\ emptyUnl = FALSE
  /\ unlAfter = FALSE
  /\ image = [c \in Cell |-> "unset"]
  /\ writes = Zero
  /\ solves = Zero
  /\ skipping = Zero
  /\ settled = FALSE

----------------------------------------------------------------------------
\* examples/lift_hom.rs, main.

\* The largest max_degree of the target module.
MaxDegree == 1
\* shift_n ranges over -MaxShift .. MaxShift and shift_s over 0 .. MaxShift.
MaxShift == 1
\* The answers to "Max target n" and "Max target s" range over 0 .. MaxStem.
MaxStem == 1

\* The primes of the modules the user can name.
Primes == {2, 3}

\* What main is given. load tells whether utils::query_module_only succeeds
\* on the target and on the source; gens[output_t] is the source's
\* number_of_gens_in_bidegree(shift_s, output_t + shift_t) and dim[output_t]
\* the target module's dimension(output_t). Nothing is asked after a failed
\* load, and a source equal to the target is the same resolution.
MainInputs ==
  {i \in [load : {"ok", "target_fails", "source_fails"},
          source_equal_target : BOOLEAN,
          target_prime : Primes, source_prime : Primes,
          shift_n : (0 - MaxShift) .. MaxShift, shift_s : 0 .. MaxShift,
          n : 0 .. MaxStem, s : 0 .. MaxStem,
          max_degree : 0 .. MaxDegree,
          gens : [0 .. MaxDegree -> 0 .. 1], dim : [0 .. MaxDegree -> 0 .. 1]] :
     /\ i.source_equal_target =>
          (i.source_prime = i.target_prime /\ i.load # "source_fails")
     /\ i.load = "target_fails" => i.source_equal_target
     /\ i.load # "ok" =>
          /\ i.shift_n = 0 /\ i.shift_s = 0 /\ i.n = 0 /\ i.s = 0
          /\ i.max_degree = 0
     /\ \A d \in 0 .. MaxDegree : d > i.max_degree => (i.gens[d] = 0 /\ i.dim[d] = 0)}

Max(a, b) == IF a >= b THEN a ELSE b

\* let shift_t = shift_n + shift_s as i32;
ShiftT(i) == i.shift_n + i.shift_s

IsExtendStep(e) == e[1] = "extend_step"

\* The loop variable output_t: one extend_step is made per iteration.
OutputT(st) == Len(SelectSeq(st, IsExtendStep))

\* if matrix.rows() == 0 || matrix.columns() == 0
NoMatrix(i, output_t) == i.gens[output_t] = 0 \/ i.dim[output_t] = 0

\* The range each resolution is computed through, as (max_s, max_n): the
\* arguments of the compute_through_stem call made on it.
SourceThrough(i) ==
  IF i.source_equal_target
    THEN <<i.s + i.shift_s, i.n + Max(0, i.shift_n)>>
    ELSE <<i.s + i.shift_s, i.n + i.shift_n>>

TargetThrough(i) ==
  IF i.source_equal_target
    THEN <<i.s + i.shift_s, i.n + Max(0, i.shift_n)>>
    ELSE <<i.s, i.n>>

\* A resolution computed through (max_s, max_n) holds the bidegrees (s, t)
\* with s <= max_s whose stem t - s is at most max_n.
NextHomologicalDegree(thr) == thr[1] + 1
MaxComputedDegree(thr, s) == thr[2] + s
HasComputedBidegree(thr, s, t) == s <= thr[1] /\ t - s <= thr[2]

\* iter_stem: the computed bidegrees as (s, n, t), stem by stem; the k-th of
\* them, counted from 0, and their number.
StemCount(thr) == IF thr[2] < 0 THEN 0 ELSE (thr[1] + 1) * (thr[2] + 1)
StemAt(thr, k) ==
  LET n == k \div (thr[1] + 1)
      s == k % (thr[1] + 1)
  IN  <<s, n, n + s>>

IsReadOut(e) == e[1] = "hom_k" \/ e[1] = "skip"

\* The position of the read-out loop: one entry is made per iteration.
ReadOuts(st) == Len(SelectSeq(st, IsReadOut))

InitMain ==
  /\ IterIdle
  /\ AlgIdle
  /\ CallIdle
  /\ mpc = "start"
  /\ minp \in MainInputs
  /\ steps = <<>>

\* let target = { utils::query_module_only("Target module", None)? ... };
QueryTarget ==
  /\ mpc = "start"
  /\ mpc' = IF minp.load = "target_fails" THEN "err" ELSE "target"
  /\ UNCHANGED <<minp, steps, itervars, algvars, callvars>>

\* let source = if source_equal_target { Arc::clone(&target) } else { ...? };
QuerySource ==
  /\ mpc = "target"
  /\ mpc' = IF ~minp.source_equal_target /\ minp.load = "source_fails"
              THEN "err" ELSE "source"
  /\ UNCHANGED <<minp, steps, itervars, algvars, callvars>>

\* assert_eq!(source.prime(), target.prime()): a panic when they differ.
AssertPrimes ==
  /\ mpc = "source"
  /\ mpc' = IF minp.source_prime = minp.target_prime THEN "checked" ELSE "panicked"
  /\ UNCHANGED <<minp, steps, itervars, algvars, callvars>>

\* The two branches of compute_through_stem.
ComputeThroughStem ==
  /\ mpc = "checked"
  /\ mpc' = "computed"
  /\ steps' =
       IF minp.source_equal_target
         THEN steps \o <<<<"compute_through_stem", "target",
                           minp.s + minp.shift_s, minp.n + Max(0, minp.shift_n)>>>>
         ELSE steps \o <<<<"compute_through_stem", "source",
                           minp.s + minp.shift_s, minp.n + minp.shift_n>>,
                         <<"compute_through_stem", "target", minp.s, minp.n>>>>
  /\ UNCHANGED <<minp, itervars, algvars, callvars>>

\* ResolutionHomomorphism::new(name, source, target, shift_s, shift_t)
NewHom ==
  /\ mpc = "computed"
  /\ mpc' = "loop"
  /\ steps' = steps \o <<<<"new", "hom", minp.shift_s, ShiftT(minp)>>>>
  /\ UNCHANGED <<minp, itervars, algvars, callvars>>

\* One iteration of for output_t in 0..=target_module.max_degree(). The
\* source is asked for its generators at (shift_s, input_t) whether or not
\* it was computed there; on a bidegree it does not hold the query or
\* extend_step may panic, or go through.
LoopExtendStep ==
  /\ mpc = "loop"
  /\ OutputT(steps) <= minp.max_degree
  /\ LET output_t == OutputT(steps)
         input_t == output_t + ShiftT(minp)
         step == <<"extend_step",
                   IF NoMatrix(minp, output_t) THEN "none" ELSE "matrix",
                   minp.shift_s, input_t>>
     IN  \/ /\ steps' = steps \o <<step>>
            /\ mpc' = mpc
         \/ /\ ~HasComputedBidegree(SourceThrough(minp), minp.shift_s, input_t)
            /\ steps' = steps
            /\ mpc' = "panicked"
  /\ UNCHANGED <<minp, itervars, algvars, callvars>>

\* hom.extend_all()
MainExtendAll ==
  /\ mpc = "loop"
  /\ OutputT(steps) > minp.max_degree
  /\ mpc' = "extended"
  /\ steps' = steps \o <<<<"extend_all", "hom", minp.shift_s, ShiftT(minp)>>>>
  /\ UNCHANGED <<minp, itervars, algvars, callvars>>

\* A guard that lets the row next_homological_degree through.
NoSkipOne(i, s, t) ==
  /\ s + i.shift_s <= NextHomologicalDegree(SourceThrough(i))
  /\ t + ShiftT(i) <= MaxComputedDegree(SourceThrough(i), s + i.shift_s)

\* The guard of the read-out loop, negated.
NoSkip(i, s, t) ==
  /\ s + i.shift_s < NextHomologicalDegree(SourceThrough(i))
  /\ t + ShiftT(i) <= MaxComputedDegree(SourceThrough(i), s + i.shift_s)

\* One iteration of for (s, n, t) in hom.target.iter_stem().
ReadOut ==
  /\ mpc = "extended"
  /\ ReadOuts(steps) < StemCount(TargetThrough(minp))
  /\ LET c == StemAt(TargetThrough(minp), ReadOuts(steps))
     IN  steps' = steps \o
           <<<<IF NoSkip(minp, c[1], c[3]) THEN "hom_k" ELSE "skip",
               "hom", c[1], c[3]>>>>
  /\ UNCHANGED <<mpc, minp, itervars, algvars, callvars>>

\* Ok(()) after the read-out loop.
MainReturn ==
  /\ mpc = "extended"
  /\ ReadOuts(steps) >= StemCount(TargetThrough(minp))
  /\ mpc' = "ok"
  /\ UNCHANGED <<minp, steps, itervars, algvars, callvars>>

NextMain ==
  \/ QueryTarget
  \/ QuerySource
  \/ AssertPrimes
  \/ ComputeThroughStem
  \/ NewHom
  \/ LoopExtendStep
  \/ MainExtendAll
  \/ ReadOut
  \/ MainReturn

SpecMain == InitMain /\ [][NextMain]_vars

----------------------------------------------------------------------------
\* The graded algebra protocol: compute_basis and the lazily growing table
\* of the algebra state.

\* The degrees of the algebra are 0 .. MaxBasisDegree.
MaxBasisDegree == 3
Degrees == 0 .. MaxBasisDegree

\* The concurrent callers of compute_basis.
Callers == {"a", "b", "c"}

\* The degree compute_basis(d) appends next: the lowest degree up to d that
\* the table does not hold yet; an entry once written is left alone.
AnyDegree(tbl, d) == {e \in Degrees : e <= d}

NextToCompute(tbl, d) ==
  {e \in Degrees : /\ e <= d
                   /\ tbl[e] = "none"
                   /\ \A u \in Degrees : u < e => tbl[u] # "none"}

InitAlg ==
  /\ IterIdle
  /\ MainIdle
  /\ CallIdle
  /\ table = [e \in Degrees |-> "none"]
  /\ twrites = [e \in Degrees |-> 0]
  /\ req = [c \in Callers |-> {}]

\* A caller enters compute_basis(d).
ComputeBasis(c, d) ==
  /\ req[c] = {}
  /\ req' = [req EXCEPT ![c] = {d}]
  /\ UNCHANGED <<table, twrites, mainvars, itervars, callvars>>

\* The call appends one degree, under the table's lock.
AppendDegree(c) ==
  /\ \E d \in req[c] : \E e \in NextToCompute(table, d) :
       /\ table' = [table EXCEPT ![e] = "computed"]
       /\ twrites' = [twrites EXCEPT ![e] = Min(@ + 1, MaxCalls)]
  /\ UNCHANGED <<req, mainvars, itervars, callvars>>

\* The call returns once every degree up to d is in the table.
ComputeBasisReturn(c) ==
  /\ req[c] # {}
  /\ \A d \in req[c] : \A e \in Degrees : e <= d => table[e] # "none"
  /\ req' = [req EXCEPT ![c] = {}]
  /\ UNCHANGED <<table, twrites, mainvars, itervars, callvars>>

NextAlg ==
  \/ \E c \in Callers, d \in Degrees : ComputeBasis(c, d)
  \/ \E c \in Callers : AppendDegree(c)
  \/ \E c \in Callers : ComputeBasisReturn(c)

SpecAlg == InitAlg /\ [][NextAlg]_vars

----------------------------------------------------------------------------
\* The default products of the Algebra trait. Vectors are sequences of
\* entries in [0, p) over a basis of MaxDim elements (index 1 is the source's
\* index 0); result holds one coefficient for every basis product b_i * b_j.

\* The dimension of the two degrees multiplied.
MaxDim == 2
\* u32 arithmetic, at a width of CoeffBits bits: the primes used satisfy
\* (p-1)^2 < 2^CoeffBits, as the primes of the program do at 32 bits.
CoeffBits == 5
Wrap == 2 ^ CoeffBits

Basis == 1 .. MaxDim
Vectors(p) == [Basis -> 0 .. (p - 1)]
Products == Basis \X Basis

\* coeff * v in u32: the product wraps in a release build.
MulU32(a, b) == (a * b) % Wrap
Overflows(a, b) == a * b >= Wrap

\* multiply_basis_elements(result, coeff, r_degree, r_idx, s_degree, s_idx):
\* adds coeff * b_r * b_s to result.
MultiplyBasisElements(result, coeff, r_idx, s_idx, p) ==
  [result EXCEPT ![<<r_idx, s_idx>>] = (@ + coeff) % p]

\* for (i, v) in s.iter_nonzero(), from index i on.
RECURSIVE BasisByElementFrom(_, _, _, _, _, _)
BasisByElementFrom(result, coeff, r_idx, s, p, i) ==
  IF i > Len(s) THEN result
  ELSE IF s[i] = 0 THEN BasisByElementFrom(result, coeff, r_idx, s, p, i + 1)
  ELSE BasisByElementFrom(
         MultiplyBasisElements(result, MulU32(coeff, s[i]) % p, r_idx, i, p),
         coeff, r_idx, s, p, i + 1)

MultiplyBasisElementByElement(result, coeff, r_idx, s, p) ==
  BasisByElementFrom(result, coeff, r_idx, s, p, 1)

\* for (i, v) in r.iter_nonzero(), from index i on.
RECURSIVE ElementByBasisFrom(_, _, _, _, _, _)
ElementByBasisFrom(result, coeff, r, s_idx, p, i) ==
  IF i > Len(r) THEN result
  ELSE IF r[i] = 0 THEN ElementByBasisFrom(result, coeff, r, s_idx, p, i + 1)
  ELSE ElementByBasisFrom(
         MultiplyBasisElements(result, MulU32(coeff, r[i]) % p, i, s_idx, p),
         coeff, r, s_idx, p, i + 1)

MultiplyElementByBasisElement(result, coeff, r, s_idx, p) ==
  ElementByBasisFrom(result, coeff, r, s_idx, p, 1)

\* for (i, v) in s.iter_nonzero(), from index i on.
RECURSIVE ElementByElementFrom(_, _, _, _, _, _)
ElementByElementFrom(result, coeff, r, s, p, i) ==
  IF i > Len(s) THEN result
  ELSE IF s[i] = 0 THEN ElementByElementFrom(result, coeff, r, s, p, i + 1)
  ELSE ElementByElementFrom(
         MultiplyElementByBasisElement(result, MulU32(coeff, s[i]) % p, r, i, p),
         coeff, r, s, p, i + 1)

MultiplyElementByElement(result, coeff, r, s, p) ==
  ElementByElementFrom(result, coeff, r, s, p, 1)

\* Some coeff * v of the call does not fit in u32: a debug build panics there.
\* The inner products are of two numbers below p and fit.
CallOverflows(coeff, v) == \E i \in 1 .. Len(v) : v[i] # 0 /\ Overflows(coeff, v[i])

\* A vector with one entry, for the calls on a basis element.
BasisVector(idx) == [i \in Basis |-> IF i = idx THEN 1 ELSE 0]

MulInputs ==
  {m \in [p : Primes, coeff : 0 .. (Wrap - 1), fill : 0 .. 1,
          r : UNION {Vectors(q) : q \in Primes},
          s : UNION {Vectors(q) : q \in Primes}] :
     m.r \in Vectors(m.p) /\ m.s \in Vectors(m.p)}

InitMul ==
  /\ IterIdle
  /\ MainIdle
  /\ AlgIdle
  /\ op = "none"
  /\ input \in MulInputs
  /\ output = <<>>

\* What a call returns: the result in a release build, where u32 products
\* wrap, and in a debug build a panic if a product overflows.
Returned(res, ovf) ==
  {[panicked |-> FALSE, result |-> res]}
    \cup (IF ovf THEN {[panicked |-> TRUE, result |-> <<>>]} ELSE {})

CallBasisByElement(r_idx) ==
  /\ op = "none"
  /\ input.r = BasisVector(r_idx)
  /\ op' = "multiply_basis_element_by_element"
  /\ output' \in Returned(
       MultiplyBasisElementByElement([c \in Products |-> input.fill],
                                     input.coeff, r_idx, input.s, input.p),
       CallOverflows(input.coeff, input.s))
  /\ UNCHANGED <<input, mainvars, algvars, itervars>>

CallElementByBasis(s_idx) ==
  /\ op = "none"
  /\ input.s = BasisVector(s_idx)
  /\ op' = "multiply_element_by_basis_element"
  /\ output' \in Returned(
       MultiplyElementByBasisElement([c \in Products |-> input.fill],
                                     input.coeff, input.r, s_idx, input.p),
       CallOverflows(input.coeff, input.r))
  /\ UNCHANGED <<input, mainvars, algvars, itervars>>

CallElementByElement ==
  /\ op = "none"
  /\ op' = "multiply_element_by_element"
  /\ output' \in Returned(
       MultiplyElementByElement([c \in Products |-> input.fill],
                                input.coeff, input.r, input.s, input.p),
       CallOverflows(input.coeff, input.s))
  /\ UNCHANGED <<input, mainvars, algvars, itervars>>

NextMul ==
  \/ \E r_idx \in Basis : CallBasisByElement(r_idx)
  \/ \E s_idx \in Basis : CallElementByBasis(s_idx)
  \/ CallElementByElement

SpecMul == InitMul /\ [][NextMul]_vars

----------------------------------------------------------------------------
\* Algebra::element_to_string. A String is a sequence of characters.

\* The entries of the elements rendered: zero, one, and values of one and
\* of two digits.
StrValues == {0, 1, 2, 10}
\* What basis_element_to_string may return for a basis element.
BasisNames == {<<>>, <<"x">>, <<"P", "1">>}

Digits == <<"0", "1", "2", "3", "4", "5", "6", "7", "8", "9">>

\* format!("{}", value) for an unsigned value.
RECURSIVE FormatU32(_)
FormatU32(v) ==
  IF v < 10 THEN <<Digits[v + 1]>>
  ELSE FormatU32(v \div 10) \o <<Digits[(v % 10) + 1]>>

\* String::pop: removes the last character, if any.
Pop(str) == IF Len(str) = 0 THEN str ELSE SubSeq(str, 1, Len(str) - 1)

\* Remove trailing " + ": three calls of pop.
PopTwice(str) == Pop(Pop(str))

RemoveTrailing(str) == Pop(Pop(Pop(str)))

\* The body of for (idx, value) in element.iter_nonzero(), from index i on.
RECURSIVE PushTermsFrom(_, _, _, _)
PushTermsFrom(result, element, names, i) ==
  IF i > Len(element) THEN result
  ELSE IF element[i] = 0 THEN PushTermsFrom(result, element, names, i + 1)
  ELSE PushTermsFrom(
         (IF element[i] # 1
            THEN result \o FormatU32(element[i]) \o <<" ", "*", " ">>
            ELSE result)
           \o names[i] \o <<" ", "+", " ">>,
         element, names, i + 1)

\* zero is still true after the loop exactly when no entry is non-zero.
IsZero(element) == \A i \in 1 .. Len(element) : element[i] = 0

ElementToString(element, names) ==
  IF IsZero(element)
    THEN PushTermsFrom(<<>>, element, names, 1) \o <<"0">>
    ELSE RemoveTrailing(PushTermsFrom(<<>>, element, names, 1))

StrInputs ==
  [element : [1 .. (MaxDim + 1) -> StrValues],
   names : [1 .. (MaxDim + 1) -> BasisNames]]

InitStr ==
  /\ IterIdle
  /\ MainIdle
  /\ AlgIdle
  /\ op = "none"
  /\ input \in StrInputs
  /\ output = <<>>

CallElementToString ==
  /\ op = "none"
  /\ op' = "element_to_string"
  /\ output' = ElementToString(input.element, input.names)
  /\ UNCHANGED <<input, mainvars, algvars, itervars>>

NextStr == CallElementToString

SpecStr == InitStr /\ [][NextStr]_vars

----------------------------------------------------------------------------
\* utils::parse_module_name. A &str is a sequence of characters.

\* The longest module name parsed.
MaxNameLen == 5
NameChars == {"M", "N", "[", "]", "1", "-", "x"}

Strings(chars, n) == UNION {[1 .. k -> chars] : k \in 0 .. n}

\* str::split(sep): the pieces between the separators, empty ones included.
RECURSIVE Split(_, _)
Split(str, sep) ==
  IF \A i \in 1 .. Len(str) : str[i] # sep THEN <<str>>
  ELSE LET k == CHOOSE i \in 1 .. Len(str) :
                  str[i] = sep /\ \A j \in 1 .. (i - 1) : str[j] # sep
       IN  <<SubSeq(str, 1, k - 1)>> \o Split(SubSeq(str, k + 1, Len(str)), sep)

\* The module files load_module_json finds, and their json: M has two
\* generators, N has no "gens" object.
ModuleFiles ==
  [name : {<<"M">>}, found : {TRUE}, p : {2}, has_gens : {TRUE},
   gens : {{<<"x0", 0>>, <<"x1", 1>>}}]
  \cup
  [name : {<<"N">>}, found : {TRUE}, p : {3}, has_gens : {FALSE}, gens : {{}}]

NoModule == [name |-> <<>>, found |-> FALSE, p |-> 0, has_gens |-> FALSE, gens |-> {}]

LoadModuleJson(module_file) ==
  IF \E m \in ModuleFiles : m.name = module_file
    THEN CHOOSE m \in ModuleFiles : m.name = module_file
    ELSE NoModule

\* str::strip_suffix(']'): what is before a final ']', if there is one.
HasSuffix(str, ch) == Len(str) > 0 /\ str[Len(str)] = ch
StripSuffix(str) == SubSeq(str, 1, Len(str) - 1)

IsDigit(ch) == \E i \in 1 .. Len(Digits) : Digits[i] = ch
DigitValue(ch) == (CHOOSE i \in 1 .. Len(Digits) : Digits[i] = ch) - 1

\* str::parse::<i64>: an optional sign and at least one digit.
IsDigits(str) == Len(str) > 0 /\ \A i \in 1 .. Len(str) : IsDigit(str[i])
IsInteger(str) ==
  \/ IsDigits(str)
  \/ Len(str) > 0 /\ str[1] \in {"-", "+"} /\ IsDigits(SubSeq(str, 2, Len(str)))

RECURSIVE DigitsValue(_)
DigitsValue(str) ==
  IF Len(str) = 0 THEN 0
  ELSE 10 * DigitsValue(SubSeq(str, 1, Len(str) - 1)) + DigitValue(str[Len(str)])

ParseI64(str) ==
  IF str[1] = "-" THEN 0 - DigitsValue(SubSeq(str, 2, Len(str)))
  ELSE IF str[1] = "+" THEN DigitsValue(SubSeq(str, 2, Len(str)))
  ELSE DigitsValue(str)

\* *entry.1 = (entry.1.as_i64().unwrap() + shift).into(), for every entry.
ShiftGens(module, shift) ==
  IF module.has_gens
    THEN [module EXCEPT !.gens = {<<g[1], g[2] + shift>> : g \in module.gens}]
    ELSE module

Failed(msg) == [ok |-> FALSE, err |-> msg, module |-> NoModule]
Loaded(module) == [ok |-> TRUE, err |-> "", module |-> module]

\* if let Some(shift) = args.next(): the piece after the first '[' only.
HasShiftPiece(pieces) == Len(pieces) > 1

ParseModuleName(module_name) ==
  LET pieces == Split(module_name, "[")
      module == LoadModuleJson(pieces[1])
  IN  IF ~module.found THEN Failed("Failed to load module file")
      ELSE IF ~HasShiftPiece(pieces) THEN Loaded(module)
      ELSE IF ~HasSuffix(pieces[2], "]") THEN Failed("Unterminated shift [")
      ELSE IF ~IsInteger(StripSuffix(pieces[2]))
        THEN Failed("Cannot parse shift value as an integer")
      ELSE Loaded(ShiftGens(module, ParseI64(StripSuffix(pieces[2]))))

InitParse ==
  /\ IterIdle
  /\ MainIdle
  /\ AlgIdle
  /\ op = "none"
  /\ input \in Strings(NameChars, MaxNameLen)
  /\ output = <<>>

CallParseModuleName ==
  /\ op = "none"
  /\ op' = "parse_module_name"
  /\ output' = ParseModuleName(input)
  /\ UNCHANGED <<input, mainvars, algvars, itervars>>

NextParse == CallParseModuleName

SpecParse == InitParse /\ [][NextParse]_vars

----------------------------------------------------------------------------
\* impl TryFrom<&str> for Config and impl TryFrom<(&str, T)> for Config.

\* The names of the two algebra types, as parsed and as displayed.
AdemName == <<"a", "d", "e", "m">>
MilnorName == <<"m", "i", "l", "n", "o", "r">>
AlgebraNames == {AdemName, MilnorName}

\* The specs tried: a module part followed by nothing or by an '@' part.
ConfigChars == {"M", "[", "]", "1"}
AlgebraParts ==
  {<<>>, <<"@">>, <<"@">> \o AdemName, <<"@">> \o MilnorName,
   <<"@", "x">> \o AdemName, <<"@">> \o AdemName \o <<"@", "x">>}
ConfigSpecs ==
  {m \o a : m \in Strings(ConfigChars, MaxNameLen), a \in AlgebraParts}

\* The second component of the pair form: a string naming an algebra, or not.
SuppliedAlgebras == AlgebraNames \cup {<<"x">>}

ConfigError == [ok |-> FALSE, module |-> NoModule, algebra |-> <<>>]
ConfigOf(parsed, algebra) ==
  IF parsed.ok THEN [ok |-> TRUE, module |-> parsed.module, algebra |-> algebra]
  ELSE ConfigError

\* Config::try_from(spec: &str)
ConfigFromStr(spec) ==
  LET pieces == Split(spec, "@")
      module_name == pieces[1]
  IN  IF Len(pieces) > 1
        THEN IF pieces[2] \in AlgebraNames
               THEN ConfigOf(ParseModuleName(module_name), pieces[2])
               ELSE ConfigError
        ELSE ConfigOf(ParseModuleName(module_name), MilnorName)

Contains(str, ch) == \E i \in 1 .. Len(str) : str[i] = ch

\* str::ends_with
EndsWith(str, suffix) ==
  /\ Len(suffix) <= Len(str)
  /\ SubSeq(str, Len(str) - Len(suffix) + 1, Len(str)) = suffix

\* Config::try_from(spec: (&str, T))
ConfigFromPair(spec, supplied) ==
  IF supplied \notin AlgebraNames THEN ConfigError
  ELSE IF Contains(spec, "@")
    THEN IF EndsWith(spec, supplied)
           THEN ConfigOf(
                  ParseModuleName(SubSeq(spec, 1, Len(spec) - Len(supplied) - 1)),
                  supplied)
           ELSE ConfigError
    ELSE ConfigOf(ParseModuleName(spec), supplied)

InitConfig ==
  /\ IterIdle
  /\ MainIdle
  /\ AlgIdle
  /\ op = "none"
  /\ input \in [spec : ConfigSpecs, algebra : SuppliedAlgebras]
  /\ output = <<>>

CallConfigFromStr ==
  /\ op = "none"
  /\ op' = "try_from_str"
  /\ output' = ConfigFromStr(input.spec)
  /\ UNCHANGED <<input, mainvars, algvars, itervars>>

CallConfigFromPair ==
  /\ op = "none"
  /\ op' = "try_from_pair"
  /\ output' = ConfigFromPair(input.spec, input.algebra)
  /\ UNCHANGED <<input, mainvars, algvars, itervars>>

NextConfig ==
  \/ CallConfigFromStr
  \/ CallConfigFromPair

SpecConfig == InitConfig /\ [][NextConfig]_vars

----------------------------------------------------------------------------
\* iter_s_t with a step function of which only this is known: the ranges it
\* returns within a row are pairwise disjoint and each starts at or after
\* the t of its call, as the ranges returned by OnceBiVec::push_ooo do.

\* cov holds the cells of the ranges already returned; the empty range is
\* t..t.
DisjointRanges(s, t, cov) ==
  {r \in Ranges :
     /\ r[1] >= t
     /\ (r[1] < r[2] \/ r = <<t, t>>)
     /\ \A u \in r[1] .. (r[2] - 1) : <<s, u>> \notin cov}

InitDisjoint ==
  /\ args \in AnyArgSets
  /\ fkind = "disjoint"
  /\ pc = "idle"
  /\ pending = Zero
  /\ running = Zero
  /\ waiting = Zero
  /\ computed = {}
  /\ calls = Zero
  /\ covered = {}
  /\ early = {}
  /\ noCoverT = {}
  /\ noCoverP = {}
  /\ emptyRet = 0
  /\ emptyUnl = FALSE
  /\ unlAfter = FALSE
  /\ image = [c \in Cell |-> "unset"]
  /\ writes = Zero
  /\ solves = Zero
  /\ skipping = Zero
  /\ settled = FALSE
  /\ LibIdle

\* f(s, t) publishes its result and returns ret; run(s, t) spawns.
ReturnDisjoint(s, t) ==
  /\ pc = "scope"
  /\ running[<<s, t>>] > 0
  /\ running' = [running EXCEPT ![<<s, t>>] = @ - 1]
  /\ computed' = computed \cup {<<s, t>>}
  /\ \E ret \in DisjointRanges(s, t, covered) :
       LET unl == Unlocked(args, s, ret)
       IN  /\ pending' = [c \in Cell |-> IF c \in unl THEN pending[c] + 1 ELSE pending[c]]
           /\ covered' = covered \cup ({s} \X (ret[1] .. (ret[2] - 1)))
           /\ emptyRet' = IF IsEmpty(ret) THEN 1 ELSE emptyRet
  /\ UNCHANGED <<args, fkind, pc, waiting, calls, early, noCoverT, noCoverP,
                 emptyUnl, unlAfter, homvars>>
  /\ UNCHANGED libvars

NextDisjoint ==
  \/ IterST
  \/ \E s \in Rows, t \in Cols : Start(s, t)
  \/ \E s \in Rows, t \in Cols : ReturnDisjoint(s, t)
  \/ ScopeExit

SpecDisjoint == InitDisjoint /\ [][NextDisjoint]_vars

----------------------------------------------------------------------------
\* One call of run(s, t), from the range f(s, t) returned to the tasks it
\* spawns.

\* The ranges f returned: start..end over the degrees, empty ones included.
RunRanges == (0 .. (MaxT - 1)) \X (0 .. MaxT)

InitRun ==
  /\ IterIdle
  /\ MainIdle
  /\ AlgIdle
  /\ op = "none"
  /\ input \in [a : ArgSets, s : Rows, ret : RunRanges]
  /\ output = <<>>

\* The tasks spawned, one for every unlocked degree of row s + 1.
CallRun ==
  /\ op = "none"
  /\ op' = "run"
  /\ LET unl == Unlocked(input.a, input.s, input.ret)
     IN  output' = [c \in Cell |-> IF c \in unl THEN 1 ELSE 0]
  /\ UNCHANGED <<input, mainvars, algvars, itervars>>

NextRun == CallRun

SpecRun == InitRun /\ [][NextRun]_vars

----------------------------------------------------------------------------
\* examples/secondary_product.rs, main.

\* u32 is modelled at a width of SBits bits.
SBits == 4
SWrap == 2 ^ SBits

\* What main is given. load and unit_load tell whether query_module and
\* construct("S_2@milnor") succeed; max_s and max_n are the answers to
\* "Max s" and "Max n" of query_module; gens is the resolution's
\* number_of_gens_in_bidegree(shift_s, shift_t), which is 0 outside the
\* bidegrees the resolution holds; survives tells whether the class passes
\* the d2 check. Nothing is asked after a failed load or when d2 cannot be
\* computed, and a unit module is its own unit resolution.
SecInputs ==
  {i \in [load : {"ok", "fails"}, is_unit : BOOLEAN, unit_load : {"ok", "fails"},
          can_compute : BOOLEAN,
          shift_n : (0 - MaxShift) .. MaxShift, shift_s : 0 .. MaxShift,
          max_s : 0 .. MaxStem, max_n : 0 .. MaxStem,
          gens : 0 .. 1, survives : BOOLEAN] :
     /\ i.is_unit => i.unit_load = "ok"
     /\ i.load = "fails" => (i.is_unit /\ i.can_compute /\ i.max_s = 0 /\ i.max_n = 0)
     /\ (i.load = "fails" \/ i.unit_load = "fails" \/ ~i.can_compute) =>
          (i.shift_n = 0 /\ i.shift_s = 0 /\ i.gens = 0)
     /\ i.gens > 0 =>
          /\ HasComputedBidegree(<<i.max_s, i.max_n>>, i.shift_s, i.shift_n + i.shift_s)
          /\ i.shift_n >= 0
     /\ i.gens = 0 => i.survives}

\* Subtraction in u32, and whether it underflows.
SubU32(a, b) == (a - b + SWrap) % SWrap
Underflows(a, b) == a < b

\* The range the resolution was computed through by query_module.
ResolutionThrough(i) == <<i.max_s, i.max_n>>

\* The range the unit resolution is computed through: the resolution's own
\* when the module is the unit, else the arguments of compute_through_stem.
UnitThrough(i) ==
  IF i.is_unit
    THEN ResolutionThrough(i)
    ELSE <<SubU32(SubU32(NextHomologicalDegree(ResolutionThrough(i)), 1), i.shift_s),
           MaxComputedDegree(ResolutionThrough(i), 0) - i.shift_n>>

\* A main that takes every bidegree to have classes.
NeverNoClasses(i) == FALSE

\* if matrix.rows() == 0 || matrix.columns() == 0, the matrix having one column.
NoClasses(i) == i.gens = 0

IsVisit(e) == e[1] \in {"skip", "wrapped", "product"}

\* The position of the product loop: one entry is made per iteration.
Visits(st) == Len(SelectSeq(st, IsVisit))

InitSec ==
  /\ IterIdle
  /\ AlgIdle
  /\ CallIdle
  /\ mpc = "start"
  /\ minp \in SecInputs
  /\ steps = <<>>

\* let resolution = Arc::new(query_module(...)?), which computes it
\* through (max_s, max_n).
SecQueryModule ==
  /\ mpc = "start"
  /\ IF minp.load = "fails"
       THEN mpc' = "err" /\ steps' = steps
       ELSE /\ mpc' = "resolution"
            /\ steps' = steps \o <<<<"compute_through_stem", "resolution",
                                     minp.max_s, minp.max_n>>>>
  /\ UNCHANGED <<minp, itervars, algvars, callvars>>

\* let unit = if is_unit { Arc::clone(&resolution) } else { ...construct(...)? };
SecUnit ==
  /\ mpc = "resolution"
  /\ mpc' = IF ~minp.is_unit /\ minp.unit_load = "fails" THEN "err" ELSE "unit"
  /\ UNCHANGED <<minp, steps, itervars, algvars, callvars>>

\* if !can_compute(&resolution) { ...; return Ok(()); }
SecCanCompute ==
  /\ mpc = "unit"
  /\ mpc' = IF minp.can_compute THEN "asked" ELSE "ok"
  /\ UNCHANGED <<minp, steps, itervars, algvars, callvars>>

\* The class is chosen: ResolutionHomomorphism::new(name, resolution, unit,
\* shift_s, shift_t).
SecNewHom ==
  /\ mpc = "asked"
  /\ mpc' = "hom"
  /\ steps' = steps \o <<<<"new", "hom", minp.shift_s, ShiftT(minp)>>>>
  /\ UNCHANGED <<minp, itervars, algvars, callvars>>

\* panic!("No classes in this bidegree") or the class is read.
SecInputClass ==
  /\ mpc = "hom"
  /\ mpc' = IF NoClasses(minp) THEN "panicked" ELSE "class"
  /\ UNCHANGED <<minp, steps, itervars, algvars, callvars>>

\* if !is_unit { unit.compute_through_stem(...) }: the first argument is a
\* u32 difference, which panics or wraps when it underflows.
SecComputeUnit ==
  /\ mpc = "class"
  /\ LET nhd == NextHomologicalDegree(ResolutionThrough(minp))
         under == Underflows(nhd, 1) \/ Underflows(SubU32(nhd, 1), minp.shift_s)
     IN  \/ /\ minp.is_unit
            /\ mpc' = "computed"
            /\ steps' = steps
         \/ /\ ~minp.is_unit
            /\ mpc' = "computed"
            /\ steps' = steps \o <<<<"compute_through_stem", "unit",
                                     UnitThrough(minp)[1], UnitThrough(minp)[2]>>>>
         \/ /\ ~minp.is_unit
            /\ under
            /\ mpc' = "panicked"
            /\ steps' = steps
  /\ UNCHANGED <<minp, itervars, algvars, callvars>>

\* hom.extend_step(shift_s, shift_t, Some(&matrix))
SecExtendStep ==
  /\ mpc = "computed"
  /\ mpc' = "fixed"
  /\ steps' = steps \o <<<<"extend_step", "matrix", minp.shift_s, ShiftT(minp)>>>>
  /\ UNCHANGED <<minp, itervars, algvars, callvars>>

\* hom.extend_all()
SecExtendAll ==
  /\ mpc = "fixed"
  /\ mpc' = "extended"
  /\ steps' = steps \o <<<<"extend_all", "hom", minp.shift_s, ShiftT(minp)>>>>
  /\ UNCHANGED <<minp, itervars, algvars, callvars>>

\* The secondary resolutions and the check that the class survives to E3:
\* assert!(..., "Class supports a non-zero d2").
SecLift ==
  /\ mpc = "extended"
  /\ mpc' = IF minp.survives THEN "products" ELSE "panicked"
  /\ UNCHANGED <<minp, steps, itervars, algvars, callvars>>

\* One iteration of for (s, n, t) in unit.iter_stem(): the two
\* has_computed_bidegree checks, the second on the u32 s + shift_s - 1,
\* which panics or wraps when s + shift_s is 0.
SecProduct ==
  /\ mpc = "products"
  /\ Visits(steps) < StemCount(UnitThrough(minp))
  /\ LET c == StemAt(UnitThrough(minp), Visits(steps))
         s == c[1]
         t == c[3]
         res == ResolutionThrough(minp)
     IN  IF ~HasComputedBidegree(res, s + minp.shift_s + 1, t + ShiftT(minp) + 1)
           THEN /\ steps' = steps \o <<<<"skip", "first", s, t>>>>
                /\ mpc' = mpc
           ELSE IF Underflows(s + minp.shift_s, 1)
             THEN \/ /\ steps' = steps \o <<<<"underflow", "panic", s, t>>>>
                     /\ mpc' = "panicked"
                  \/ /\ steps' = steps \o
                          <<<<IF HasComputedBidegree(res, SubU32(s + minp.shift_s, 1),
                                                     t + ShiftT(minp))
                                THEN "product" ELSE "wrapped", "wrap", s, t>>>>
                     /\ mpc' = mpc
             ELSE /\ steps' = steps \o
                       <<<<IF HasComputedBidegree(res, SubU32(s + minp.shift_s, 1),
                                                  t + ShiftT(minp))
                             THEN "product" ELSE "skip", "second", s, t>>>>
                  /\ mpc' = mpc
  /\ UNCHANGED <<minp, itervars, algvars, callvars>>

\* Ok(()) after the product loop.
SecReturn ==
  /\ mpc = "products"
  /\ Visits(steps) >= StemCount(UnitThrough(minp))
  /\ mpc' = "ok"
  /\ UNCHANGED <<minp, steps, itervars, algvars, callvars>>

NextSec ==
  \/ SecQueryModule
  \/ SecUnit
  \/ SecCanCompute
  \/ SecNewHom
  \/ SecInputClass
  \/ SecComputeUnit
  \/ SecExtendStep
  \/ SecExtendAll
  \/ SecLift
  \/ SecProduct
  \/ SecReturn

SpecSec == InitSec /\ [][NextSec]_vars

----------------------------------------------------------------------------
\* The scheduler's properties.

NonBootstrap(c) == c[1] > args.min_s /\ c[2] > args.min_t

\* C1 (as stated): with an f that reports honest ranges, f(s,t), s > min_s,
\* starts only after f(s-1,t') is published for every min_t <= t' < t.
\* Every step function of Spec reports honest ranges.
C1_HonestOrder == early = {}

\* C1 (amended): with an f that returns the documented range (from t to the
\* largest T such that row s is published at every t' < T), f(s,t), s > min_s,
\* starts only after f(s-1,t') is published for every min_t <= t' < t.
C1_DocumentedOrder == fkind \in {"documented", "push_ooo"} => early = {}

C1_Witness ==
  /\ fkind = "documented"
  /\ \E c \in Cell : NonBootstrap(c) /\ c[2] >= args.min_t + 2 /\ calls[c] > 0

\* C2 (as stated): no call f(s,t) with s >= 1 starts before some call of row
\* s-1 has returned a range that covers t itself.
C2_CoversT == noCoverT = {}

\* C2 (amended): no call f(s,t) with s > min_s and t > min_t starts before
\* some call of row s-1 has returned a range that covers t-1.
C2_CoversPredecessor == noCoverP = {}

C2_Witness ==
  \E c \in Cell : NonBootstrap(c) /\ calls[c] > 0 /\ c \in noCoverT

\* C3 (as stated): with an f that returns the documented range, read when f
\* returns, no bidegree has f invoked on it more than once.
C3_DocumentedOnce == fkind = "documented" => \A c \in Cell : calls[c] <= 1

\* C3 (amended): with an f whose documented range is read in the step that
\* publishes its result, no bidegree has f invoked on it more than once.
C3_AtomicOnce == fkind = "push_ooo" => \A c \in Cell : calls[c] <= 1

C3_Witness ==
  /\ fkind = "push_ooo"
  /\ pc = "returned"
  /\ \E c \in Cell : NonBootstrap(c) /\ c[2] >= args.min_t + 2 /\ calls[c] = 1

\* C4: when iter_s_t returns, f has been invoked at every bidegree of the
\* declared grid, whatever the bound function max_t.
C4_AllInvoked ==
  pc = "returned" => \A c \in Cell : InGrid(args, c) => calls[c] > 0

\* C5: every invocation f(s,t) lies inside the declared grid.
C5_InsideGrid == \A c \in Cell : calls[c] > 0 => InGrid(args, c)

C7_EmptyUnlocksNothing == ~emptyUnl

C7_Witness == emptyRet = 1 /\ unlAfter /\ pc = "returned"

----------------------------------------------------------------------------
\* The homomorphism's properties.

C9_Idempotent ==
  [][(settled /\ pc = "scope") => (image' = image /\ solves' = solves)]_vars

\* A later call has invoked f on a bidegree unlocked by the row below.
C9_Witness ==
  /\ settled
  /\ pc = "scope"
  /\ \E c \in Cell : NonBootstrap(c) /\ calls[c] > 0

----------------------------------------------------------------------------
\* lift_hom's properties.

\* C11: when the primes of the source and of the target differ, main ends
\* with an error value and not with an abort, and no call on the
\* homomorphism has been made.
C11_MismatchIsError ==
  (minp.source_prime # minp.target_prime /\ mpc \notin {"start", "target", "source"})
    => (mpc = "err" /\ steps = <<>>)

----------------------------------------------------------------------------
\* The algebra protocol's properties.

Bilinear(m) ==
  [c \in Products |-> (m.fill + m.coeff * m.r[c[1]] * m.s[c[2]]) % m.p]

\* C13: for every prime, coefficient and vectors with entries in [0, p), each
\* of the three default products adds to result the bilinear extension of
\* multiply_basis_elements.
C13_BilinearExtension ==
  op # "none" => (~output.panicked /\ output.result = Bilinear(input))


\* The term of a non-zero entry: the basis element's string, after "c * "
\* when the coefficient c is not 1.
TermOf(element, names, i) ==
  (IF element[i] = 1 THEN <<>> ELSE FormatU32(element[i]) \o <<" ", "*", " ">>)
    \o names[i]

\* The terms of the non-zero entries from index i on, joined by " + ".
RECURSIVE JoinedFrom(_, _, _, _)
JoinedFrom(element, names, i, first) ==
  IF i > Len(element) THEN <<>>
  ELSE IF element[i] = 0 THEN JoinedFrom(element, names, i + 1, first)
  ELSE (IF first THEN <<>> ELSE <<" ", "+", " ">>)
         \o TermOf(element, names, i)
         \o JoinedFrom(element, names, i + 1, FALSE)

\* C14: element_to_string returns "0" for an element with no non-zero entry
\* and otherwise the terms of its non-zero entries, in increasing index
\* order, joined by " + ", with no separator before the first or after the
\* last.
C14_JoinedTerms ==
  op = "element_to_string" =>
    output = IF \A i \in 1 .. Len(input.element) : input.element[i] = 0
               THEN <<"0">>
               ELSE JoinedFrom(input.element, input.names, 1, TRUE)

\* Three terms, with coefficient 1, of one digit and of two digits.
C14_Witness ==
  /\ op = "element_to_string"
  /\ \E i, j, k \in 1 .. Len(input.element) :
       /\ i < j /\ j < k
       /\ input.element[i] = 10 /\ input.element[j] = 1 /\ input.element[k] = 2
       /\ input.names[k] = <<>>

----------------------------------------------------------------------------
\* The properties of the parsing of module names and configurations.

\* The text of a '[' is well formed: it ends with ']' and what is before
\* the ']' is an integer.
WellFormedShift(piece) == HasSuffix(piece, "]") /\ IsInteger(StripSuffix(piece))

\* C15: a name without '[' gives the module's specification unchanged; the
\* name M[k] gives it with every generator degree increased by k and nothing
\* else changed; a '[' whose text does not end with ']' or whose content is
\* not an integer gives an error and no module.
C15_ShiftSuffix ==
  op = "parse_module_name" =>
    LET pieces == Split(input, "[")
        module == LoadModuleJson(pieces[1])
    IN  /\ (module.found /\ Len(pieces) = 1) => output = Loaded(module)
        /\ (module.found /\ Len(pieces) = 2 /\ WellFormedShift(pieces[2])) =>
             /\ output.ok
             /\ output.module.gens =
                  {<<g[1], g[2] + ParseI64(StripSuffix(pieces[2]))>> : g \in module.gens}
             /\ [output.module EXCEPT !.gens = module.gens] = module
        /\ (\E i \in 2 .. Len(pieces) : ~WellFormedShift(pieces[i])) =>
             (~output.ok /\ output.module = NoModule)


\* The text after the first '@' of a spec that has one.
AfterAt(spec) ==
  LET k == CHOOSE i \in 1 .. Len(spec) :
             spec[i] = "@" /\ \A j \in 1 .. (i - 1) : spec[j] # "@"
  IN  SubSeq(spec, k + 1, Len(spec))

\* C16: the single-string form uses the algebra after '@', and Milnor when
\* there is no '@'; the pair form, given a spec with an '@', succeeds only
\* if the text after the '@' is the supplied algebra, then with the Config
\* of the single-string form, and fails with no Config otherwise.
C16_ConfigForms ==
  /\ op = "try_from_str" =>
       /\ ~Contains(input.spec, "@") =>
            output = ConfigOf(ParseModuleName(input.spec), MilnorName)
       /\ (output.ok /\ Contains(input.spec, "@")) =>
            output.algebra = Split(input.spec, "@")[2]
  /\ (op = "try_from_pair" /\ Contains(input.spec, "@")) =>
       IF input.algebra \in AlgebraNames /\ AfterAt(input.spec) = input.algebra
         THEN output = ConfigFromStr(input.spec)
         ELSE output = ConfigError

----------------------------------------------------------------------------
\* Further properties of the scheduler.

\* C17: the calls iter_s_t issues itself are f(min_s, t) for every t in
\* [min_t, max_t(min_s)) and f(s, min_t) for every s in (min_s, max_s);
\* every other invocation f(s, t) follows a range returned on row s-1 that
\* unlocked t.
C17_OnlyBootstrap ==
  /\ pc # "idle" =>
       /\ \A t \in Cols : (args.min_t <= t /\ t < args.max_t[args.min_s]) =>
            calls[<<args.min_s, t>>] + pending[<<args.min_s, t>>] > 0
       /\ \A s \in Rows : (args.min_s < s /\ s < args.max_s /\ args.min_t \in Cols) =>
            calls[<<s, args.min_t>>] + pending[<<s, args.min_t>>] > 0
  /\ \A c \in Cell :
       (calls[c] + pending[c] > 0 /\ c \notin BootstrapCalls(args)) =>
         (c[1] > args.min_s /\ c[2] > 0 /\ <<c[1] - 1, c[2] - 1>> \in covered)

C17_Witness ==
  /\ pc = "returned"
  /\ BootstrapCol(args) # {}
  /\ Cardinality(BootstrapRow(args)) >= 2
  /\ \E c \in Cell : c \notin BootstrapCalls(args) /\ calls[c] > 0

C19_Barrier ==
  /\ [](pc = "returned" =>
          \A c \in Cell : pending[c] = 0 /\ running[c] = 0 /\ waiting[c] = 0)
  /\ [][pc = "returned" => (calls' = calls /\ running' = running)]_vars

C19_Witness ==
  /\ pc = "returned"
  /\ \E c \in Cell : NonBootstrap(c) /\ calls[c] > 0 /\ c \in computed

C21_CompleteUnderSlope ==
  (/\ fkind = "push_ooo"
   /\ pc = "returned"
   /\ \A s \in Rows : (args.min_s <= s /\ s + 1 < args.max_s) =>
        args.max_t[s + 1] <= args.max_t[s] + 1)
    => \A s \in Rows, t \in Cols :
         (/\ args.min_s <= s /\ s < args.max_s
          /\ args.min_t <= t /\ t < args.max_t[s]) => calls[<<s, t>>] > 0

\* A grid of two rows whose upper row is one degree longer than the lower.
C21_Witness ==
  /\ fkind = "push_ooo"
  /\ pc = "returned"
  /\ args.min_s + 1 < args.max_s
  /\ args.max_t[args.min_s] >= args.min_t + 2
  /\ args.max_t[args.min_s + 1] = args.max_t[args.min_s] + 1
  /\ calls[<<args.min_s + 1, args.max_t[args.min_s]>>] > 0


\* The end of the degrees of row s on which a push_ooo step function is
\* invoked: row min_s is the first closure of the join; row s+1 is
\* (s+1, min_t) of the second closure and one degree further than row s
\* reports, cut at max_t(s+1).
RECURSIVE InvokedEnd(_, _)
InvokedEnd(a, s) ==
  IF s <= a.min_s
    THEN Max(a.min_t, a.max_t[a.min_s])
    ELSE Max(a.min_t + 1, Min(InvokedEnd(a, s - 1) + 1, a.max_t[s]))

InvokedSet(a) ==
  {c \in Cell : /\ a.min_s <= c[1]
                /\ (c[1] = a.min_s \/ c[1] < a.max_s)
                /\ a.min_t <= c[2]
                /\ c[2] < InvokedEnd(a, c[1])}

\* C22: with a push_ooo step function the set of bidegrees on which f is
\* invoked depends on the arguments only: whatever the interleaving, at the
\* return of iter_s_t it is InvokedSet(args), and no run invokes f outside it.
C22_SameInvokedSet ==
  fkind = "push_ooo" =>
    /\ \A c \in Cell : calls[c] > 0 => c \in InvokedSet(args)
    /\ pc = "returned" => \A c \in InvokedSet(args) : calls[c] > 0

\* A run in which a degree was published before a lower one of its row, so
\* that its call returned an empty range and another call unlocked for it.
C22_Witness ==
  /\ fkind = "push_ooo"
  /\ pc = "returned"
  /\ emptyRet = 1
  /\ unlAfter
  /\ Cardinality(InvokedSet(args)) >= 4


----------------------------------------------------------------------------
\* Further properties of lift_hom.

IsExtendAll(e) == e[1] = "extend_all"
IsHomK(e) == e[1] = "hom_k"

\* C23: for each output_t in 0..=max_degree exactly one
\* extend_step(shift_s, output_t + shift_t, m) is issued, in order, m being
\* omitted exactly when the source has no generators there or the target
\* module has dimension 0 at output_t; main does not abort inside the loop;
\* every extend_step comes before extend_all and every hom_k after it.
C23_OneStepPerDegree ==
  /\ LET es == SelectSeq(steps, IsExtendStep)
     IN  /\ Len(es) <= minp.max_degree + 1
         /\ \A j \in 1 .. Len(es) :
              /\ es[j][3] = minp.shift_s
              /\ es[j][4] = (j - 1) + ShiftT(minp)
              /\ (es[j][2] = "none") <=>
                   (minp.gens[j - 1] = 0 \/ minp.dim[j - 1] = 0)
         /\ mpc \in {"extended", "ok"} => Len(es) = minp.max_degree + 1
  /\ \A k \in 1 .. Len(steps), l \in 1 .. Len(steps) :
       /\ (k < l /\ IsExtendAll(steps[k])) => ~IsExtendStep(steps[l])
       /\ (k < l /\ IsHomK(steps[k])) => ~IsExtendAll(steps[l])
  /\ (\E k \in 1 .. Len(steps) : IsHomK(steps[k])) =>
       (\E k \in 1 .. Len(steps) : IsExtendAll(steps[k]))
  /\ mpc = "panicked" => \A k \in 1 .. Len(steps) : steps[k][1] # "new"

\* C24: hom_k is read at a target bidegree (s, t) only when the source
\* holds (s + shift_s, t + shift_t), every other bidegree of the target is
\* skipped, and when main returns every bidegree of the target has been
\* visited once.
C24_ReadOutComputed ==
  /\ \A k \in 1 .. Len(steps) :
       IsReadOut(steps[k]) =>
         ((steps[k][1] = "hom_k") <=>
            HasComputedBidegree(SourceThrough(minp), steps[k][3] + minp.shift_s,
                                steps[k][4] + ShiftT(minp)))
  /\ mpc = "ok" =>
       \A s \in 0 .. TargetThrough(minp)[1], n \in 0 .. TargetThrough(minp)[2] :
         Cardinality({k \in 1 .. Len(steps) :
                        /\ IsReadOut(steps[k])
                        /\ steps[k][3] = s /\ steps[k][4] = n + s}) = 1

\* Some bidegrees were read and some skipped.
C24_Witness ==
  /\ mpc = "ok"
  /\ \E k \in 1 .. Len(steps) : steps[k][1] = "hom_k" /\ steps[k][3] > 0
  /\ \E k \in 1 .. Len(steps) : steps[k][1] = "skip"

\* C25: every source bidegree at which the generators are queried and
\* extend_step is called was computed by compute_through_stem, so that
\* the loop neither aborts nor works on a bidegree the source does not hold.
C25_StepInsideComputed ==
  /\ \A k \in 1 .. Len(steps) :
       IsExtendStep(steps[k]) =>
         HasComputedBidegree(SourceThrough(minp), steps[k][3], steps[k][4])
  /\ mpc = "panicked" => minp.source_prime # minp.target_prime


----------------------------------------------------------------------------
\* secondary_product's properties.

IsUnderflow(e) == e[2] = "panic" \/ e[2] = "wrap"

\* C26: in the product loop s + shift_s - 1 is evaluated only when
\* s + shift_s >= 1: at no bidegree that passes the first
\* has_computed_bidegree check does the subtraction underflow.
C26_NoUnderflow ==
  \A k \in 1 .. Len(steps) : ~IsUnderflow(steps[k])

IsCompute(e) == e[1] = "compute_through_stem"

\* C27: when the source has no generators at (shift_s, shift_t), main aborts
\* with no extend_step and no extend_all made; otherwise the class is fixed
\* by one extend_step(shift_s, shift_t, matrix), made after every
\* compute_through_stem and before extend_all, and nothing else is fixed.
C27_OneClass ==
  /\ (mpc \notin {"start", "resolution", "unit", "asked", "hom", "err"}
        /\ minp.can_compute /\ NoClasses(minp)) =>
       /\ mpc = "panicked"
       /\ \A k \in 1 .. Len(steps) : ~IsExtendStep(steps[k]) /\ ~IsExtendAll(steps[k])
  /\ LET es == SelectSeq(steps, IsExtendStep)
     IN  /\ Len(es) <= 1
         /\ \A j \in 1 .. Len(es) :
              es[j] = <<"extend_step", "matrix", minp.shift_s, ShiftT(minp)>>
         /\ (\E k \in 1 .. Len(steps) : IsExtendAll(steps[k])) => Len(es) = 1
         /\ Len(es) = 1 =>
              /\ minp.gens > 0
              /\ \E k \in 1 .. Len(steps) :
                   /\ IsCompute(steps[k])
                   /\ steps[k][2] = IF minp.is_unit THEN "resolution" ELSE "unit"
  /\ \A k \in 1 .. Len(steps), l \in 1 .. Len(steps) :
       /\ (k < l /\ IsExtendStep(steps[k])) => ~IsCompute(steps[l])
       /\ (k < l /\ IsExtendAll(steps[k])) => ~IsExtendStep(steps[l])
  /\ mpc \in {"extended", "products", "ok"} /\ minp.can_compute =>
       \E k \in 1 .. Len(steps) : IsExtendAll(steps[k])

\* The class of a module that is not the unit has been fixed and extended.
C27_Witness ==
  /\ mpc = "ok"
  /\ ~minp.is_unit
  /\ minp.shift_s > 0
  /\ \E k \in 1 .. Len(steps) : IsExtendAll(steps[k])
  /\ \E k \in 1 .. Len(steps) : IsVisit(steps[k])

====
